---------------------------- MODULE Spec2Model ----------------------------
(***************************************************************************)
(* Model of zim/gui/insertedobjects.py: the widgets that embed an object   *)
(* in the page view (InsertedObjectWidget, TextViewWidget,                 *)
(* UnkownObjectWidget), the cursor handoff between the embedding text view *)
(* and the embedded one, the editability inherited from the parent, and    *)
(* the fallback object type (UnkownObjectBuffer, UnknownInsertedObject).   *)
(*                                                                         *)
(* Two specifications share the variables:                                 *)
(*   Spec        a plain InsertedObjectWidget and a TextViewWidget over a  *)
(*               text buffer, after construction, driven by the signals    *)
(*               the toolkit delivers to them;                             *)
(*   SpecObject  the life of an unknown object: parse_attrib,              *)
(*               model_from_data, create_widget;                           *)
(*   SpecBuffer  the life of an UnkownObjectBuffer: model_from_data, edits *)
(*               of its text, data_from_model.                             *)
(***************************************************************************)
EXTENDS Integers, Sequences, FiniteSets, TLC

-----------------------------------------------------------------------------
(* Bounds of the model *)

\* longest buffer content
MaxLen == 2
\* largest number of characters a movement command moves by
MaxCount == 1
\* size of the pool of signal handler ids
MaxHandlers == 2
\* largest number of parse_attrib calls on one dictionary
MaxParse == 2
\* largest number of edits of the buffer's text
MaxEdits == 2

-----------------------------------------------------------------------------
(* Program constants *)

POSITION_BEGIN == 1
POSITION_END == 2

\* Python's None, and the results a signal handler can return
None == "None"
True == "True"

\* self.parent_notify_h = None: no handler id (a handler id is a positive number)
NoHandler == 0

\* UnknownInsertedObject.name
name == "unknown"

\* no position: neither POSITION_BEGIN nor POSITION_END
NoPosition == 0

-----------------------------------------------------------------------------
(* Input domains *)

Chars == {"a", "b"}

RECURSIVE Texts(_)
Texts(n) == IF n = 0 THEN {<<>>}
            ELSE Texts(n - 1) \cup
                 {Append(t, c) : t \in {u \in Texts(n - 1) : Len(u) = n - 1}, c \in Chars}

\* one content of every length, for the cursor handoff
RECURSIVE Sample(_)
Sample(n) == IF n = 0 THEN <<>> ELSE Append(Sample(n - 1), IF n % 2 = 1 THEN "a" ELSE "b")

SampleTexts == {Sample(n) : n \in 0..MaxLen}

Counts == (0 - MaxCount)..MaxCount

\* Gtk.MovementStep values used by the key bindings
Steps == {"LOGICAL_POSITIONS", "BUFFER_ENDS"}

\* the text views the widget can be anchored in
Parents == {"A", "B"}

HandlerIds == 1..MaxHandlers

\* the two widget instances of Spec
Widgets == {"InsertedObjectWidget", "TextViewWidget"}

\* who holds the input focus
ParentOwnsCursor == "ParentOwnsCursor"
ChildOwnsCursor == "ChildOwnsCursor"

-----------------------------------------------------------------------------
VARIABLES
    \* the Gtk.TextBuffer behind the view
    text,               \* its content
    insert,             \* offset of the insert mark (the caret)
    selection_bound,    \* offset of the selection_bound mark
    \* InsertedObjectWidget
    _has_cursor,        \* [Widgets -> BOOLEAN]
    vbox,               \* children of self.vbox, top to bottom; <<>> before construction
    \* TextViewWidget
    view_editable,      \* self.view "editable"
    view_cursor_visible,\* self.view "cursor-visible"
    parent_notify_h,    \* handler id or NoHandler
    parent,             \* self.get_parent(): a member of Parents or None
    \* the environment of the widget
    parent_editable,    \* [Parents -> BOOLEAN]
    connections,        \* notify::editable handlers connected: set of <<parent, id>>
    owner,              \* who holds the input focus
    \* observation of the last event delivered
    event,              \* [sig, arg]
    released,           \* release-cursor emissions of the last event: sequence of positions
    ret,                \* what on_move_cursor returned for the last event
    last_set,           \* [Widgets -> <<last argument of set_has_cursor>>, or <<>>]
    grabbed,            \* a grab-cursor was delivered and no release-cursor since
    \* the unknown object (SpecObject)
    pc,                 \* "data", "model", "widget"; "TextViewWidget" in Spec
    dicts,              \* the attribute dictionaries alive: sequence indexed by reference
    attrib,             \* the caller's attribute dictionary: a reference into dicts
    data,               \* the caller's text
    object_attrib,      \* UnkownObjectBuffer.object_attrib: a reference, 0 before __init__
    view_buffer,        \* what self.view shows: "buffer" after view.set_buffer(buffer)
    plugins,            \* the plugins ObjectManager knows
    found,              \* what ObjectManager.find_plugin returned to the widget
    orig,               \* the attributes as the caller first had them
    parsed,             \* number of parse_attrib calls so far
    returned,           \* <<what data_from_model last returned>>: attrib reference, data
    edits,              \* number of edits of the buffer's text so far
    \* observation of the event before the last one
    entered             \* its position, when it was a grab-cursor; else NoPosition

vars == <<text, insert, selection_bound, _has_cursor, vbox, view_editable,
          view_cursor_visible, parent_notify_h, parent, parent_editable,
          connections, owner, event, released, ret, last_set, grabbed,
          pc, dicts, attrib, data, object_attrib, view_buffer, plugins, found,
          orig, parsed, returned, edits, entered>>

object_vars == <<pc, dicts, attrib, data, object_attrib, view_buffer, plugins,
                 found, orig, parsed, returned, edits>>

buffer_vars == <<text, insert, selection_bound>>
parent_vars == <<view_editable, view_cursor_visible, parent_notify_h, parent,
                 parent_editable, connections>>

Ev(sig, arg) == [sig |-> sig, arg |-> arg]

\* the position of the grab-cursor just delivered, if the last event was one
after_grab == IF event.sig = "grab-cursor" THEN event.arg[1] ELSE NoPosition

-----------------------------------------------------------------------------
(* Gtk.TextBuffer *)

\* buffer.get_bounds()
get_bounds == <<0, Len(text)>>

\* iter.is_start(), iter.is_end()
is_start(iter) == iter = 0
is_end(iter) == iter = Len(text)

\* buffer.get_selection_bounds() is not empty
has_selection == insert # selection_bound

Min(a, b) == IF a < b THEN a ELSE b
Max(a, b) == IF a < b THEN b ELSE a

\* buffer.place_cursor(where): both marks move, the selection is dropped
place_cursor(where) ==
    /\ insert' = where
    /\ selection_bound' = where

-----------------------------------------------------------------------------
(* InsertedObjectWidget *)

\* InsertedObjectWidget.has_cursor()
has_cursor(w) == _has_cursor[w]

\* InsertedObjectWidget.__init__: self._has_cursor = False
InsertedObjectWidget_init == FALSE

\* set_has_cursor that does not assign the field
set_has_cursor_value_kept(old, arg) == old

\* InsertedObjectWidget.set_has_cursor(has_cursor): the new value of the field
set_has_cursor_value(old, arg) == arg

\* a call of set_has_cursor on one of the widgets
set_has_cursor(w, arg) ==
    /\ _has_cursor' = [_has_cursor EXCEPT ![w] = set_has_cursor_value(@, arg)]
    /\ last_set' = [last_set EXCEPT ![w] = <<arg>>]
    /\ event' = Ev("set_has_cursor", <<w, arg>>)
    /\ entered' = after_grab
    /\ released' = <<>>
    /\ ret' = "n/a"
    /\ UNCHANGED <<buffer_vars, parent_vars, vbox, owner, grabbed, object_vars>>

-----------------------------------------------------------------------------
(* TextViewWidget: the cursor handoff *)

\* do_grab_cursor without its else branch: the caret always goes to the start
do_grab_cursor_always_begin(position) ==
    [cursor |-> get_bounds[1], focus |-> ChildOwnsCursor]

\* do_grab_cursor without self.view.grab_focus()
do_grab_cursor_no_focus(position) ==
    [cursor |-> IF position = POSITION_BEGIN THEN get_bounds[1] ELSE get_bounds[2],
     focus |-> owner]

\* do_grab_cursor that does nothing while the view is not editable
do_grab_cursor_editable_only(position) ==
    IF view_editable
    THEN [cursor |-> IF position = POSITION_BEGIN THEN get_bounds[1] ELSE get_bounds[2],
          focus |-> ChildOwnsCursor]
    ELSE [cursor |-> insert, focus |-> owner]

\* TextViewWidget.do_grab_cursor(position): where the caret is placed, and who
\* has the focus afterwards (self.view.grab_focus())
do_grab_cursor(position) ==
    LET begin == get_bounds[1]
        end == get_bounds[2]
    IN  [cursor |-> IF position = POSITION_BEGIN THEN begin ELSE end,
         focus |-> ChildOwnsCursor]

\* InsertedObjectWidget.grab_cursor(position): emits grab-cursor, whose class
\* handler is do_grab_cursor
grab_cursor(position) ==
    /\ place_cursor(do_grab_cursor(position).cursor)
    /\ owner' = do_grab_cursor(position).focus
    /\ grabbed' = TRUE
    /\ event' = Ev("grab-cursor", <<position>>)
    /\ entered' = after_grab
    /\ released' = <<>>
    /\ ret' = "n/a"
    /\ UNCHANGED <<text, parent_vars, _has_cursor, last_set, vbox, object_vars>>

\* on_move_cursor without its elif branch: leaving at the end releases nothing
on_move_cursor_no_end(iter, step_size, count, extend_selection) ==
    IF (is_start(iter) \/ is_end(iter)) /\ ~extend_selection
       /\ is_start(iter) /\ count < 0
    THEN [released |-> <<POSITION_BEGIN>>, ret |-> None]
    ELSE [released |-> <<>>, ret |-> None]

\* on_move_cursor returning True after a release: the command is consumed
on_move_cursor_consumes(iter, step_size, count, extend_selection) ==
    IF (is_start(iter) \/ is_end(iter)) /\ ~extend_selection
    THEN IF is_start(iter) /\ count < 0
         THEN [released |-> <<POSITION_BEGIN>>, ret |-> True]
         ELSE IF is_end(iter) /\ count > 0
              THEN [released |-> <<POSITION_END>>, ret |-> True]
              ELSE [released |-> <<>>, ret |-> None]
    ELSE [released |-> <<>>, ret |-> None]

\* on_move_cursor without the test of extend_selection
on_move_cursor_ignores_extend(iter, step_size, count, extend_selection) ==
    IF is_start(iter) /\ count < 0
    THEN [released |-> <<POSITION_BEGIN>>, ret |-> None]
    ELSE IF is_end(iter) /\ count > 0
         THEN [released |-> <<POSITION_END>>, ret |-> None]
         ELSE [released |-> <<>>, ret |-> None]

\* on_move_cursor testing the caret before the sign of count: at the start it
\* releases with POSITION_BEGIN whichever way the command points
on_move_cursor_start_first(iter, step_size, count, extend_selection) ==
    IF (is_start(iter) \/ is_end(iter)) /\ ~extend_selection /\ count # 0
    THEN IF is_start(iter)
         THEN [released |-> <<POSITION_BEGIN>>, ret |-> None]
         ELSE IF count > 0
              THEN [released |-> <<POSITION_END>>, ret |-> None]
              ELSE [released |-> <<>>, ret |-> None]
    ELSE [released |-> <<>>, ret |-> None]

\* TextViewWidget.on_move_cursor(view, step_size, count, extend_selection) with
\* the caret at iter: the release-cursor signals it emits and what it returns
on_move_cursor(iter, step_size, count, extend_selection) ==
    IF (is_start(iter) \/ is_end(iter)) /\ ~extend_selection
    THEN IF is_start(iter) /\ count < 0
         THEN [released |-> <<POSITION_BEGIN>>, ret |-> None]
         ELSE IF is_end(iter) /\ count > 0
              THEN [released |-> <<POSITION_END>>, ret |-> None]
              ELSE [released |-> <<>>, ret |-> None]
    ELSE [released |-> <<>>, ret |-> None]

\* The view's own move-cursor handler, which runs after on_move_cursor unless
\* that one blocked the signal: where the insert mark goes
default_move_target(step_size, count, extend_selection) ==
    IF count = 0 THEN insert
    ELSE IF step_size = "BUFFER_ENDS"
         THEN (IF count < 0 THEN 0 ELSE Len(text))
         ELSE IF has_selection /\ ~extend_selection
              THEN (IF count < 0 THEN Min(insert, selection_bound)
                                 ELSE Max(insert, selection_bound))
              ELSE Max(0, Min(Len(text), insert + count))

\* whether the signal goes on to the next handler after a handler returned r
propagates(r) == r # True

\* The embedding text view's handler of release-cursor: it takes the cursor back
parent_on_release_cursor(position) == ParentOwnsCursor

\* A caret-movement key binding delivered to the view, which has the focus
move_cursor(step_size, count, extend_selection) ==
    LET r == on_move_cursor(insert, step_size, count, extend_selection)
        target == default_move_target(step_size, count, extend_selection)
    IN  /\ owner = ChildOwnsCursor
        /\ released' = r.released
        /\ ret' = r.ret
        /\ owner' = IF r.released = <<>> THEN owner
                    ELSE parent_on_release_cursor(r.released[Len(r.released)])
        /\ grabbed' = IF r.released = <<>> THEN grabbed ELSE FALSE
        /\ IF propagates(r.ret)
           THEN /\ insert' = target
                /\ selection_bound' = IF extend_selection THEN selection_bound ELSE target
           ELSE UNCHANGED <<insert, selection_bound>>
        /\ event' = Ev("move-cursor", <<count, extend_selection>>)
        /\ entered' = after_grab
        /\ UNCHANGED <<text, parent_vars, _has_cursor, last_set, vbox, object_vars>>

\* The pointer is pressed inside the view: the view takes the focus and puts
\* the caret where the pointer is; no grab-cursor is involved
view_focus_in(where) ==
    /\ place_cursor(where)
    /\ owner' = ChildOwnsCursor
    /\ event' = Ev("focus-in", <<"view">>)
    /\ entered' = after_grab
    /\ released' = <<>>
    /\ ret' = "n/a"
    /\ UNCHANGED <<text, parent_vars, _has_cursor, last_set, vbox, grabbed, object_vars>>

\* The pointer is pressed in the embedding text view, outside the widget
parent_focus_in ==
    /\ owner = ChildOwnsCursor
    /\ owner' = ParentOwnsCursor
    /\ event' = Ev("focus-in", <<"parent">>)
    /\ entered' = after_grab
    /\ released' = <<>>
    /\ ret' = "n/a"
    /\ UNCHANGED <<buffer_vars, parent_vars, _has_cursor, last_set, vbox, grabbed,
                   object_vars>>

-----------------------------------------------------------------------------
(* TextViewWidget: the editability inherited from the parent *)

\* TextViewWidget.set_editable(editable): the view's editable and
\* cursor-visible properties afterwards
set_editable(editable) == [editable |-> editable, cursor_visible |-> editable]

\* parent.connect('notify::editable', ...): a handler id not in use
new_handler_id ==
    CHOOSE h \in HandlerIds :
        /\ h # parent_notify_h
        /\ \A c \in connections : c[2] # h
        /\ \A g \in HandlerIds :
              (g # parent_notify_h /\ \A c \in connections : c[2] # g) => h <= g

can_connect ==
    \E h \in HandlerIds : h # parent_notify_h /\ \A c \in connections : c[2] # h

\* on_parent_set that connects to the new parent without applying its
\* editability
on_parent_set_no_set_editable(old_parent, new_parent) ==
    LET disconnects == old_parent # None /\ parent_notify_h # NoHandler
        h1 == IF disconnects THEN NoHandler ELSE parent_notify_h
        c1 == IF disconnects THEN connections \ {<<old_parent, parent_notify_h>>}
              ELSE connections
    IN  /\ UNCHANGED <<view_editable, view_cursor_visible>>
        /\ IF new_parent # None
           THEN /\ parent_notify_h' = new_handler_id
                /\ connections' = c1 \cup {<<new_parent, new_handler_id>>}
           ELSE /\ parent_notify_h' = h1
                /\ connections' = c1

\* on_parent_set that never disconnects from the old parent
on_parent_set_no_disconnect(old_parent, new_parent) ==
    IF new_parent # None
    THEN /\ view_editable' = set_editable(parent_editable[new_parent]).editable
         /\ view_cursor_visible' =
                set_editable(parent_editable[new_parent]).cursor_visible
         /\ parent_notify_h' = new_handler_id
         /\ connections' = connections \cup {<<new_parent, new_handler_id>>}
    ELSE UNCHANGED <<view_editable, view_cursor_visible, parent_notify_h,
                     connections>>

\* on_parent_set that puts the view back to editable when the widget has no
\* parent any more
on_parent_set_resets_editable(old_parent, new_parent) ==
    LET disconnects == old_parent # None /\ parent_notify_h # NoHandler
        h1 == IF disconnects THEN NoHandler ELSE parent_notify_h
        c1 == IF disconnects THEN connections \ {<<old_parent, parent_notify_h>>}
              ELSE connections
    IN  IF new_parent # None
        THEN /\ view_editable' = set_editable(parent_editable[new_parent]).editable
             /\ view_cursor_visible' =
                    set_editable(parent_editable[new_parent]).cursor_visible
             /\ parent_notify_h' = new_handler_id
             /\ connections' = c1 \cup {<<new_parent, new_handler_id>>}
        ELSE /\ parent_notify_h' = h1
             /\ connections' = c1
             /\ view_editable' = set_editable(TRUE).editable
             /\ view_cursor_visible' = set_editable(TRUE).cursor_visible

\* TextViewWidget.on_parent_set(widget, old_parent), run when the widget's
\* parent became new_parent (self.get_parent())
on_parent_set(old_parent, new_parent) ==
    LET disconnects == old_parent # None /\ parent_notify_h # NoHandler
        h1 == IF disconnects THEN NoHandler ELSE parent_notify_h
        c1 == IF disconnects THEN connections \ {<<old_parent, parent_notify_h>>}
              ELSE connections
    IN  IF new_parent # None
        THEN /\ view_editable' = set_editable(parent_editable[new_parent]).editable
             /\ view_cursor_visible' =
                    set_editable(parent_editable[new_parent]).cursor_visible
             /\ parent_notify_h' = new_handler_id
             /\ connections' = c1 \cup {<<new_parent, new_handler_id>>}
        ELSE /\ parent_notify_h' = h1
             /\ connections' = c1
             /\ UNCHANGED <<view_editable, view_cursor_visible>>

\* The widget is anchored in text view p: Gtk sets its parent and emits
\* parent-set with no old parent
set_parent(p) ==
    /\ parent = None
    /\ can_connect
    /\ parent' = p
    /\ on_parent_set(None, p)
    /\ event' = Ev("parent-set", <<None, p>>)
    /\ entered' = after_grab
    /\ released' = <<>>
    /\ ret' = "n/a"
    /\ UNCHANGED <<buffer_vars, parent_editable, _has_cursor, last_set, vbox,
                   owner, grabbed, object_vars>>

\* The widget is removed from its parent: Gtk emits parent-set with the old one
unparent ==
    /\ parent # None
    /\ parent' = None
    /\ on_parent_set(parent, None)
    /\ event' = Ev("parent-set", <<parent, None>>)
    /\ entered' = after_grab
    /\ released' = <<>>
    /\ ret' = "n/a"
    /\ UNCHANGED <<buffer_vars, parent_editable, _has_cursor, last_set, vbox,
                   owner, grabbed, object_vars>>

\* TextViewWidget.on_parent_notify(widget, prop): the editability it applies,
\* given the editability of the text views; without a parent the handler
\* raises and changes nothing
on_parent_notify(editable_of) ==
    IF parent # None
    THEN set_editable(editable_of[parent])
    ELSE [editable |-> view_editable, cursor_visible |-> view_cursor_visible]

\* Text view p changes its editable property and notifies the handlers
\* connected to it
notify_editable(p) ==
    LET editable_of == [parent_editable EXCEPT ![p] = ~@]
        connected == \E c \in connections : c[1] = p
    IN  /\ parent_editable' = editable_of
        /\ view_editable' = IF connected THEN on_parent_notify(editable_of).editable
                            ELSE view_editable
        /\ view_cursor_visible' =
               IF connected THEN on_parent_notify(editable_of).cursor_visible
               ELSE view_cursor_visible
        /\ event' = Ev("notify::editable", <<p>>)
        /\ entered' = after_grab
        /\ released' = <<>>
        /\ ret' = "n/a"
        /\ UNCHANGED <<buffer_vars, parent_notify_h, parent, connections,
                       _has_cursor, last_set, vbox, owner, grabbed, object_vars>>

-----------------------------------------------------------------------------
(* Spec: the widgets after construction *)

\* TextViewWidget.__init__ packs the scrolled view into self.vbox
TextViewWidget_vbox == <<[kind |-> "ScrolledTextView"]>>

Init ==
    /\ text \in SampleTexts
    /\ insert \in 0..Len(text)
    /\ selection_bound = insert
    /\ _has_cursor = [w \in Widgets |->
                        IF w = "TextViewWidget"
                        THEN set_has_cursor_value(InsertedObjectWidget_init, TRUE)
                        ELSE InsertedObjectWidget_init]
    /\ last_set = [w \in Widgets |-> IF w = "TextViewWidget" THEN <<TRUE>> ELSE <<>>]
    /\ vbox = TextViewWidget_vbox
    /\ view_editable = TRUE
    /\ view_cursor_visible = TRUE
    /\ parent_notify_h = NoHandler
    /\ parent = None
    /\ parent_editable \in [Parents -> BOOLEAN]
    /\ connections = {}
    /\ owner = ParentOwnsCursor
    /\ event = Ev("__init__", <<>>)
    /\ released = <<>>
    /\ ret = "n/a"
    /\ grabbed = FALSE
    /\ pc = "TextViewWidget"
    /\ dicts = <<>>
    /\ attrib = 0
    /\ data = text
    /\ object_attrib = 0
    /\ view_buffer = "buffer"
    /\ plugins = {}
    /\ found = <<>>
    /\ orig = <<>>
    /\ parsed = 0
    /\ returned = <<>>
    /\ edits = 0
    /\ entered = NoPosition

Next ==
    \/ \E w \in Widgets, arg \in BOOLEAN : set_has_cursor(w, arg)
    \/ \E position \in {POSITION_BEGIN, POSITION_END} : grab_cursor(position)
    \/ \E step_size \in Steps, count \in Counts, extend_selection \in BOOLEAN :
           move_cursor(step_size, count, extend_selection)
    \/ \E where \in 0..Len(text) : view_focus_in(where)
    \/ parent_focus_in
    \/ \E p \in Parents : set_parent(p)
    \/ unparent
    \/ \E p \in Parents : notify_editable(p)

Spec == Init /\ [][Next]_vars

-----------------------------------------------------------------------------
(* Properties of Spec *)

\* the arguments of the movement command that led to the next state
count_of(e) == e.arg[1]
extend_selection_of(e) == e.arg[2]

\* C1: after grab-cursor(position) the caret of the child is at the start of
\* its content for POSITION_BEGIN and at the end for POSITION_END, and the
\* child's view has the input focus, whatever the length of the content.
C1_GrabPlacesCaretAndFocuses ==
    event.sig = "grab-cursor" =>
        /\ owner = ChildOwnsCursor
        /\ event.arg[1] = POSITION_BEGIN => insert = 0
        /\ event.arg[1] = POSITION_END => insert = Len(text)

C1_Witness ==
    /\ event = Ev("grab-cursor", <<POSITION_END>>)
    /\ Len(text) = MaxLen
    /\ insert = Len(text)
    /\ owner = ChildOwnsCursor

\* C2, as stated: a movement command with the caret at the start and
\* count < 0, or at the end and count > 0, while no selection is active in the
\* buffer, emits release-cursor exactly once, with POSITION_BEGIN resp.
\* POSITION_END.
C2_Original ==
    [][(event'.sig = "move-cursor" /\ ~has_selection) =>
          /\ (is_start(insert) /\ count_of(event') < 0)
                => released' = <<POSITION_BEGIN>>
          /\ (is_end(insert) /\ count_of(event') > 0)
                => released' = <<POSITION_END>>]_vars

\* C2, amended: a movement command that does not extend the selection
\* (extend_selection false), with the caret at the start and count < 0, or at
\* the end and count > 0, emits release-cursor exactly once, with
\* POSITION_BEGIN resp. POSITION_END, whether or not a selection is active.
C2_ReleaseOnExit ==
    [][(event'.sig = "move-cursor" /\ ~extend_selection_of(event')) =>
          /\ (is_start(insert) /\ count_of(event') < 0)
                => released' = <<POSITION_BEGIN>>
          /\ (is_end(insert) /\ count_of(event') > 0)
                => released' = <<POSITION_END>>]_vars

C2_Witness ==
    /\ event = Ev("move-cursor", <<-1, FALSE>>)
    /\ released = <<POSITION_BEGIN>>
    /\ Len(text) > 0

\* C3: on_move_cursor returns None for every movement command, with or without
\* a release-cursor, and the view's own handler then moves the caret.
C3_NeverConsumes ==
    [][event'.sig = "move-cursor" =>
          /\ ret' = None
          /\ \E step_size \in Steps :
                insert' = default_move_target(step_size, count_of(event'),
                                              extend_selection_of(event'))]_vars

C3_Witness ==
    /\ event.sig = "move-cursor"
    /\ released = <<POSITION_END>>
    /\ ret = None
    /\ insert = Len(text)

\* C4: whenever the TextViewWidget has a parent, the editability of its view
\* and the visibility of its caret equal the editability of that parent.
C4_EditableInherited ==
    parent # None =>
        /\ view_editable = parent_editable[parent]
        /\ view_cursor_visible = parent_editable[parent]

C4_Witness ==
    /\ parent = "B"
    /\ event = Ev("notify::editable", <<"B">>)
    /\ ~view_editable
    /\ ~view_cursor_visible
    /\ ~parent_editable["B"]

\* C5, as stated: every release-cursor is preceded by a grab-cursor with no
\* other release-cursor in between.
C5_Original == [][released' # <<>> => grabbed]_vars

\* C5, amended: a release-cursor is emitted only by a movement command
\* delivered while the child's view has the focus (ChildOwnsCursor), and once
\* per command; grab-cursor always ends in ChildOwnsCursor.  The view can also
\* get the focus without a grab-cursor, so a release need not follow a grab and
\* two releases can follow one grab.
C5_HandoffStates ==
    [][/\ released' # <<>> =>
            /\ event'.sig = "move-cursor"
            /\ owner = ChildOwnsCursor
            /\ Len(released') = 1
       /\ event'.sig = "grab-cursor" => owner' = ChildOwnsCursor]_vars

C5_Witness ==
    /\ event = Ev("move-cursor", <<1, FALSE>>)
    /\ released = <<POSITION_END>>
    /\ owner = ParentOwnsCursor
    /\ ~grabbed

\* C7: a movement command emits no release-cursor when the caret is strictly
\* inside the content, when it is at the start of non-empty content and
\* count >= 0, when it is at the end of non-empty content and count <= 0, when
\* count = 0, or when it extends the selection; step_size plays no part.
C7_NoReleaseInside ==
    [][event'.sig = "move-cursor" =>
          LET count == count_of(event')
              extend_selection == extend_selection_of(event')
          IN  (\/ ~is_start(insert) /\ ~is_end(insert)
               \/ is_start(insert) /\ count >= 0 /\ Len(text) > 0
               \/ is_end(insert) /\ count <= 0 /\ Len(text) > 0
               \/ count = 0
               \/ extend_selection)
              => released' = <<>>]_vars

C7_Witness ==
    /\ event = Ev("move-cursor", <<-1, TRUE>>)
    /\ insert = 0
    /\ selection_bound = 0
    /\ released = <<>>
    /\ owner = ChildOwnsCursor

\* C8: at most one notify::editable handler is connected, it is connected to
\* the current parent and is the one parent_notify_h names; a change of the
\* editability of a text view that is not the parent leaves the child's
\* editability alone, a change of the parent's is applied.
C8_OneSubscription ==
    /\ [](/\ Cardinality(connections) <= 1
          /\ \A c \in connections : c[1] = parent /\ c[2] = parent_notify_h
          /\ parent # None => connections # {})
    /\ [][event'.sig = "notify::editable" =>
             IF event'.arg[1] = parent
             THEN view_editable' = parent_editable'[parent]
             ELSE /\ view_editable' = view_editable
                  /\ view_cursor_visible' = view_cursor_visible]_vars

C8_Witness ==
    /\ parent = "B"
    /\ event = Ev("notify::editable", <<"A">>)
    /\ connections = {<<"B", parent_notify_h>>}
    /\ view_editable # parent_editable["A"]

\* C9: has_cursor() of a plain InsertedObjectWidget is False after
\* construction and then the last value given to set_has_cursor(); that of a
\* TextViewWidget is True from construction, and no grab-cursor,
\* release-cursor, move-cursor, parent-set or editability event changes
\* either.
C9_HasCursor ==
    /\ has_cursor("TextViewWidget")
    /\ ~has_cursor("InsertedObjectWidget")
    /\ [](\A w \in Widgets : last_set[w] # <<>> => has_cursor(w) = last_set[w][1])
    /\ [][event'.sig # "set_has_cursor" => _has_cursor' = _has_cursor]_vars

C9_Witness ==
    /\ event = Ev("set_has_cursor", <<"InsertedObjectWidget", TRUE>>)
    /\ has_cursor("InsertedObjectWidget")
    /\ has_cursor("TextViewWidget")

-----------------------------------------------------------------------------
(* The unknown object: UnknownInsertedObject, UnkownObjectBuffer,           *)
(* UnkownObjectWidget                                                       *)

\* attribute dictionaries: functions from some of the keys to values
Keys == {"type", "lang"}
Values == {"code", "unknown", ""}
Attribs == UNION {[K -> Values] : K \in SUBSET Keys}

\* the plugins that may be known for object type "code"; klass is the plugin class
KnownPlugins ==
    {[key |-> "code", name |-> "Source View", activatable |-> a,
      klass |-> "SourceViewPlugin"] : a \in BOOLEAN}

\* dict.setdefault(key, default): the dictionary afterwards
setdefault(d, key, default) ==
    IF key \in DOMAIN d THEN d
    ELSE [k \in DOMAIN d \cup {key} |-> IF k = key THEN default ELSE d[k]]

\* dict.get(key): the value, or None
get(d, key) == IF key \in DOMAIN d THEN d[key] ELSE None

\* parse_attrib assigning attrib['type'] instead of setdefault
parse_attrib_overwrites(d) ==
    [k \in DOMAIN d \cup {"type"} |-> IF k = "type" THEN name ELSE d[k]]

\* UnknownInsertedObject.parse_attrib(attrib): the dictionary attrib refers to
\* afterwards; the reference itself is returned
parse_attrib(d) == setdefault(d, "type", name)

\* a call of parse_attrib on the caller's dictionary
call_parse_attrib ==
    /\ pc = "data"
    /\ parsed < MaxParse
    /\ dicts' = [dicts EXCEPT ![attrib] = parse_attrib(@)]
    /\ parsed' = parsed + 1
    /\ event' = Ev("parse_attrib", <<attrib>>)
    /\ UNCHANGED entered
    /\ UNCHANGED <<buffer_vars, parent_vars, _has_cursor, last_set, vbox, owner,
                   grabbed, released, ret, pc, attrib, data, object_attrib,
                   view_buffer, plugins, found, orig, returned, edits>>

\* UnknownInsertedObject.model_from_data(attrib, data): UnkownObjectBuffer(attrib,
\* data) keeps the reference to the dictionary and takes data as its text;
\* Gtk leaves the insert mark at one of the bounds of the new text
model_from_data ==
    /\ pc = "data"
    /\ pc' = "model"
    /\ object_attrib' = attrib
    /\ text' = data
    /\ insert' \in {0, Len(data)}
    /\ selection_bound' = insert'
    /\ event' = Ev("model_from_data", <<attrib>>)
    /\ UNCHANGED entered
    /\ UNCHANGED <<parent_vars, _has_cursor, last_set, vbox, owner, grabbed,
                   released, ret, dicts, attrib, data, view_buffer, plugins,
                   found, orig, parsed, returned, edits>>

\* ObjectManager.find_plugin(type): <<plugin>>, or <<>> for None
find_plugin(type) ==
    IF \E p \in plugins : p.key = type
    THEN <<CHOOSE p \in plugins : p.key = type>>
    ELSE <<>>

\* Gtk.Box.pack_start(child) and Gtk.Box.reorder_child(child, 0)
pack_start(box, child) == Append(box, child)
reorder_child_first(box, child) ==
    <<child>> \o SelectSeq(box, LAMBDA c : c # child)

\* the message of a Gtk.Label: a format and the value put for its %s
Label(fmt, value) == [kind |-> "Label", fmt |-> fmt, arg |-> value]

\* _add_load_plugin_bar with the button of its commented-out lines
_add_load_plugin_bar_with_button(box, plugin) ==
    LET label == Label("Plugin %s is required to display this object.", plugin.name)
        button == [kind |-> "Button",
                   label |-> IF plugin.activatable THEN "Enable plugin"
                             ELSE "Show plugin details"]
        hbox == [kind |-> "HBox",
                 children |-> pack_start(pack_start(<<>>, label), button)]
    IN  reorder_child_first(pack_start(box, hbox), hbox)

\* UnkownObjectWidget._add_load_plugin_bar(plugin): self.vbox afterwards
_add_load_plugin_bar(box, plugin) ==
    LET label == Label("Plugin %s is required to display this object.", plugin.name)
        hbox == [kind |-> "HBox", children |-> pack_start(<<>>, label)]
    IN  reorder_child_first(pack_start(box, hbox), hbox)

\* UnkownObjectWidget.__init__(buffer): the plugin it looks up for the object's
\* attributes, <<>> for None; an empty or missing type is not looked up
UnkownObjectWidget_plugin(d) ==
    LET type == get(d, "type")
    IN  IF type # None /\ type # "" THEN find_plugin(type) ELSE <<>>

\* UnkownObjectWidget.__init__(buffer), after TextViewWidget.__init__ has
\* left box in self.vbox: self.vbox afterwards, given the object's attributes
UnkownObjectWidget_init(box, d) ==
    LET type == get(d, "type")
        plugin == UnkownObjectWidget_plugin(d)
    IN  IF plugin # <<>>
        THEN _add_load_plugin_bar(box, plugin[1])
        ELSE LET label == Label("No plugin available to display objects of type: %s",
                                type)
             IN  reorder_child_first(pack_start(box, label), label)

\* UnknownInsertedObject.create_widget(buffer): UnkownObjectWidget(buffer)
create_widget ==
    /\ pc = "model"
    /\ pc' = "widget"
    /\ _has_cursor' = [_has_cursor EXCEPT !["TextViewWidget"] =
                          set_has_cursor_value(InsertedObjectWidget_init, TRUE)]
    /\ last_set' = [last_set EXCEPT !["TextViewWidget"] = <<TRUE>>]
    /\ view_buffer' = "buffer"
    /\ view_editable' = TRUE
    /\ view_cursor_visible' = TRUE
    /\ parent_notify_h' = NoHandler
    /\ vbox' = UnkownObjectWidget_init(TextViewWidget_vbox, dicts[object_attrib])
    /\ found' = UnkownObjectWidget_plugin(dicts[object_attrib])
    /\ event' = Ev("create_widget", <<object_attrib>>)
    /\ UNCHANGED entered
    /\ UNCHANGED <<buffer_vars, parent, parent_editable, connections, owner,
                   grabbed, released, ret, dicts, attrib, data, object_attrib,
                   plugins, orig, parsed, returned, edits>>

InitObject ==
    /\ pc = "data"
    /\ orig \in Attribs
    /\ dicts = <<orig>>
    /\ attrib = 1
    /\ data \in Texts(MaxLen)
    /\ plugins \in {{}} \cup {{p} : p \in KnownPlugins}
    /\ object_attrib = 0
    /\ parsed = 0
    /\ found = <<>>
    /\ returned = <<>>
    /\ edits = 0
    /\ entered = NoPosition
    \* no buffer and no widget yet
    /\ text = <<>>
    /\ insert = 0
    /\ selection_bound = 0
    /\ view_buffer = None
    /\ vbox = <<>>
    /\ _has_cursor = [w \in Widgets |-> InsertedObjectWidget_init]
    /\ last_set = [w \in Widgets |-> <<>>]
    /\ view_editable = FALSE
    /\ view_cursor_visible = FALSE
    /\ parent_notify_h = NoHandler
    /\ parent = None
    /\ parent_editable = [p \in Parents |-> TRUE]
    /\ connections = {}
    /\ owner = ParentOwnsCursor
    /\ event = Ev("__init__", <<>>)
    /\ released = <<>>
    /\ ret = "n/a"
    /\ grabbed = FALSE

NextObject ==
    \/ call_parse_attrib
    \/ model_from_data
    \/ create_widget

SpecObject == InitObject /\ [][NextObject]_vars

-----------------------------------------------------------------------------
(* Properties of SpecObject *)

\* the children of a box and of the boxes in it
RECURSIVE Descendants(_)
Descendants(box) ==
    UNION {{box[i]} \cup (IF box[i].kind = "HBox" THEN Descendants(box[i].children)
                          ELSE {}) : i \in DOMAIN box}

\* C6: an UnkownObjectWidget shows the text of its buffer, the object's data,
\* in its view, with exactly one message, placed above the view: the type that
\* cannot be displayed when no plugin was found or the type is missing, the
\* name of the plugin when one was found; and it holds no button, whatever
\* the plugin's activatable flag.
C6_Placeholder ==
    pc = "widget" =>
        LET type == get(dicts[object_attrib], "type")
            labels == {c \in Descendants(vbox) : c.kind = "Label"}
        IN  /\ view_buffer = "buffer"
            /\ text = data
            /\ Len(vbox) = 2
            /\ vbox[2] = [kind |-> "ScrolledTextView"]
            /\ Cardinality(labels) = 1
            /\ \A c \in Descendants(vbox) : c.kind # "Button"
            /\ IF found = <<>>
               THEN vbox[1] = Label("No plugin available to display objects of type: %s",
                                    type)
               ELSE /\ vbox[1].kind = "HBox"
                    /\ vbox[1].children =
                          <<Label("Plugin %s is required to display this object.",
                                  found[1].name)>>

C6_Witness ==
    /\ pc = "widget"
    /\ found # <<>>
    /\ found[1].activatable
    /\ vbox[1].kind = "HBox"
    /\ Len(data) = MaxLen

\* C10: parse_attrib sets 'type' to "unknown" only when attrib has no 'type'
\* key, keeps an existing 'type' and every other attribute, accepts every
\* attribute dictionary, and a second call changes nothing.
C10_ParseAttrib ==
    (pc = "data" /\ parsed >= 1) =>
        LET d == dicts[attrib]
        IN  /\ DOMAIN d = DOMAIN orig \cup {"type"}
            /\ \A k \in DOMAIN orig : d[k] = orig[k]
            /\ "type" \notin DOMAIN orig => d["type"] = name

C10_Witness ==
    /\ pc = "data"
    /\ parsed = 2
    /\ DOMAIN orig = {"lang"}
    /\ dicts[attrib] = [type |-> name, lang |-> orig["lang"]]

-----------------------------------------------------------------------------
(* The buffer of an unknown object: UnkownObjectBuffer                      *)

\* start.get_text(end): the characters between two offsets
get_text(start, end) == SubSeq(text, start + 1, end)

\* d[key] = value on a dictionary
setitem(d, key, value) ==
    [k \in DOMAIN d \cup {key} |-> IF k = key THEN value ELSE d[k]]

\* the dictionaries still referred to when a new result replaces the last one:
\* the caller's own
kept_dicts == SubSeq(dicts, 1, attrib)

\* get_object_data returning self.object_attrib itself, not a copy
get_object_data_no_copy ==
    [dicts |-> kept_dicts,
     attrib |-> object_attrib,
     data |-> get_text(get_bounds[1], get_bounds[2])]

\* UnkownObjectBuffer.get_object_data(): the dictionaries alive afterwards, the
\* reference to the copy it returns, and the text it returns
get_object_data ==
    [dicts |-> Append(kept_dicts, dicts[object_attrib]),
     attrib |-> Len(kept_dicts) + 1,
     data |-> get_text(get_bounds[1], get_bounds[2])]

\* UnknownInsertedObject.data_from_model(buffer)
data_from_model ==
    /\ pc = "model"
    /\ dicts' = get_object_data.dicts
    /\ returned' = <<[attrib |-> get_object_data.attrib,
                     data |-> get_object_data.data]>>
    /\ event' = Ev("data_from_model", <<object_attrib>>)
    /\ UNCHANGED entered
    /\ UNCHANGED <<buffer_vars, parent_vars, _has_cursor, last_set, vbox, owner,
                   grabbed, released, ret, pc, attrib, data, object_attrib,
                   view_buffer, plugins, found, orig, parsed, edits>>

\* The caller changes an entry of the dictionary data_from_model returned
modify_returned(key, value) ==
    /\ returned # <<>>
    /\ dicts' = [dicts EXCEPT ![returned[1].attrib] = setitem(@, key, value)]
    /\ event' = Ev("modify_returned", <<key, value>>)
    /\ UNCHANGED entered
    /\ UNCHANGED <<buffer_vars, parent_vars, _has_cursor, last_set, vbox, owner,
                   grabbed, released, ret, pc, attrib, data, object_attrib,
                   view_buffer, plugins, found, orig, parsed, returned, edits>>

\* An edit of the buffer: a character is inserted at the insert mark
insert_at_cursor(c) ==
    /\ pc = "model"
    /\ edits < MaxEdits
    /\ Len(text) < MaxLen
    /\ text' = SubSeq(text, 1, insert) \o <<c>> \o SubSeq(text, insert + 1, Len(text))
    /\ place_cursor(insert + 1)
    /\ edits' = edits + 1
    /\ event' = Ev("insert-text", <<c>>)
    /\ UNCHANGED entered
    /\ UNCHANGED <<parent_vars, _has_cursor, last_set, vbox, owner, grabbed,
                   released, ret, pc, dicts, attrib, data, object_attrib,
                   view_buffer, plugins, found, orig, parsed, returned>>

\* An edit of the buffer: the character before the insert mark is deleted
backspace ==
    /\ pc = "model"
    /\ edits < MaxEdits
    /\ insert > 0
    /\ text' = SubSeq(text, 1, insert - 1) \o SubSeq(text, insert + 1, Len(text))
    /\ place_cursor(insert - 1)
    /\ edits' = edits + 1
    /\ event' = Ev("delete-range", <<insert>>)
    /\ UNCHANGED entered
    /\ UNCHANGED <<parent_vars, _has_cursor, last_set, vbox, owner, grabbed,
                   released, ret, pc, dicts, attrib, data, object_attrib,
                   view_buffer, plugins, found, orig, parsed, returned>>

\* an object's attrib and data, with no plugin known
InitBuffer ==
    /\ InitObject
    /\ plugins = {}

NextBuffer ==
    \/ model_from_data
    \/ \E c \in Chars : insert_at_cursor(c)
    \/ backspace
    \/ data_from_model
    \/ \E key \in Keys : modify_returned(key, "changed")

SpecBuffer == InitBuffer /\ [][NextBuffer]_vars

-----------------------------------------------------------------------------
(* Properties of SpecBuffer *)

\* C11: data_from_model(model_from_data(attrib, data)) returns attributes
\* equal to attrib and, with no edit in between, the text data; after edits
\* the text it returns is all of the buffer's text; and the attributes it
\* returns are a copy: changing them leaves those of the buffer as they were.
C11_RoundTrip ==
    /\ [](event.sig = "data_from_model" =>
            /\ dicts[returned[1].attrib] = dicts[attrib]
            /\ returned[1].data = text
            /\ edits = 0 => (returned[1].data = data
                             /\ dicts[returned[1].attrib] = orig))
    /\ [][event'.sig = "modify_returned" =>
             dicts'[object_attrib] = dicts[object_attrib]]_vars

C11_Witness ==
    /\ event.sig = "modify_returned"
    /\ dicts[returned[1].attrib] # dicts[object_attrib]
    /\ dicts[object_attrib] = orig
    /\ edits = MaxEdits
    /\ returned[1].data = text
    /\ text # data

-----------------------------------------------------------------------------
(* Properties of Spec: the handoff after a grab, on removal, and read-only   *)

\* C12: a movement command that does not extend the selection and comes
\* right after a grab-cursor hands the cursor back with the tag of the grab
\* when it points to the side the cursor came from: POSITION_BEGIN for
\* count < 0 after grab(POSITION_BEGIN), POSITION_END for count > 0 after
\* grab(POSITION_END); on empty content the tag follows the sign of count
\* alone, whatever the tag of the grab.
C12_GrabThenBack ==
    [][(event.sig = "grab-cursor" /\ event'.sig = "move-cursor"
        /\ ~extend_selection_of(event')) =>
          LET position == event.arg[1]
              count == count_of(event')
          IN  /\ (position = POSITION_BEGIN /\ count < 0)
                    => released' = <<POSITION_BEGIN>>
              /\ (position = POSITION_END /\ count > 0)
                    => released' = <<POSITION_END>>
              /\ (Len(text) = 0 /\ count < 0) => released' = <<POSITION_BEGIN>>
              /\ (Len(text) = 0 /\ count > 0) => released' = <<POSITION_END>>]_vars

C12_Witness ==
    /\ entered = POSITION_BEGIN
    /\ event = Ev("move-cursor", <<1, FALSE>>)
    /\ Len(text) = 0
    /\ released = <<POSITION_END>>

\* C13: when the TextViewWidget is removed from its parent it holds no
\* notify::editable handler any more (parent_notify_h is None, nothing is
\* connected), and the editability of its view and the visibility of its
\* caret stay what the old parent gave them; they do not go back to the
\* editable of the constructor.
C13_RemovedKeepsEditable ==
    [][(event'.sig = "parent-set" /\ parent' = None) =>
          /\ parent_notify_h' = NoHandler
          /\ connections' = {}
          /\ view_editable' = parent_editable[parent]
          /\ view_cursor_visible' = parent_editable[parent]
          /\ view_editable' = view_editable
          /\ view_cursor_visible' = view_cursor_visible]_vars

C13_Witness ==
    /\ event = Ev("parent-set", <<"A", None>>)
    /\ parent = None
    /\ parent_notify_h = NoHandler
    /\ connections = {}
    /\ ~view_editable
    /\ ~view_cursor_visible

\* C14: grab-cursor and movement commands leave the editability of the view
\* and the visibility of its caret as they are; and with a view that is not
\* editable, grab-cursor still places the caret and gives the view the focus
\* and a command that leaves the content still emits release-cursor.
C14_HandoffIgnoresEditable ==
    [][/\ event'.sig \in {"grab-cursor", "move-cursor"} =>
            /\ view_editable' = view_editable
            /\ view_cursor_visible' = view_cursor_visible
       /\ (~view_editable /\ event'.sig = "grab-cursor") =>
            /\ owner' = ChildOwnsCursor
            /\ insert' = IF event'.arg[1] = POSITION_BEGIN THEN 0 ELSE Len(text)
       /\ (~view_editable /\ event'.sig = "move-cursor"
           /\ ~extend_selection_of(event')) =>
            /\ (is_start(insert) /\ count_of(event') < 0)
                  => released' = <<POSITION_BEGIN>>
            /\ (is_end(insert) /\ count_of(event') > 0)
                  => released' = <<POSITION_END>>]_vars

C14_Witness ==
    /\ parent = "A"
    /\ ~parent_editable["A"]
    /\ ~view_editable
    /\ entered = POSITION_END
    /\ event = Ev("move-cursor", <<1, FALSE>>)
    /\ released = <<POSITION_END>>
    /\ Len(text) = MaxLen

=============================================================================
